---- MODULE Spec2Model ----
(***************************************************************************)
(* A model of bipy.core.tree.TreeNode (src/bipy/core/tree.py): a rooted,   *)
(* multi-branching tree whose nodes carry a Name, a Length, a Parent       *)
(* back reference, an ordered Children list and a lazily built name cache. *)
(*                                                                         *)
(* Node objects are the integers 1..NumNodes; None is 0.  The order of the *)
(* integers stands for the order of the objects' addresses, which is what  *)
(* Python 2 compares two TreeNode objects by.  The module is Python 2      *)
(* code (reduce without import, integer "/" used as an index), so map()    *)
(* is eager.                                                               *)
(***************************************************************************)
EXTENDS Integers, Sequences, FiniteSets, TLC

NumNodes == 4
NumSmall == 3
MaxExtend == 2
MaxChildren == 2
MaxIndex == 1
MaxTipnames == 2
MaxBlack == 2
MaxLength == 1
MaxEndpoints == 2
MaxNameLen == 2

None == 0
Nodes == 1..NumNodes

SmallNodes == 1..NumSmall

\* Name is None (NoName) or a string
NoName == "<None>"
NameValues == {"a", "b"}

\* black is the attribute lowest_common_ancestor sets on nodes: a list of nodes,
\* never empty when set; NoBlack stands for a node without the attribute
NoBlack == <<>>

\* Length is None (NoLength) or a number
NoLength == -1
LengthValues == 0..MaxLength

\* MaxDistTips is the attribute _set_max_distance sets on nodes: a list of two
\* [dist, tip] lists.  These inner lists are objects several nodes' MaxDistTips
\* may hold at once; tip_lists is the sequence of all of them in the order of
\* their creation, and MaxDistTips[n] is a pair of positions in it, or
\* NoMaxDistTips for a node without the attribute
NoMaxDistTips == <<>>

\* start and stop are the attributes __start and __stop tip_tip_distances sets on
\* nodes: numbers from 0, or NoRange for a node without the attribute
NoRange == -1

VARIABLES Parent, Children, Name, Length, node_cache, black, MaxDistTips, tip_lists,
          start, stop, ret

vars == <<Parent, Children, Name, Length, node_cache, black, MaxDistTips, tip_lists,
          start, stop, ret>>

(***************************************************************************)
(* Sequence helpers (Python list primitives).                              *)
(***************************************************************************)
Reverse(s) == [i \in 1..Len(s) |-> s[Len(s) + 1 - i]]

Front(s) == SubSeq(s, 1, Len(s) - 1)

Last(s) == s[Len(s)]

\* list.pop(i) for a valid 1-based position i: the list without that element
DropAt(s, i) == SubSeq(s, 1, i - 1) \o SubSeq(s, i + 1, Len(s))

\* for (i, curr_node) in enumerate(...): if curr_node == node -> first position, 0 if none
IndexOf(s, x) == IF \E i \in 1..Len(s) : s[i] = x
                 THEN CHOOSE i \in 1..Len(s) : s[i] = x /\ \A j \in 1..(i - 1) : s[j] # x
                 ELSE 0

Count(s, x) == Cardinality({i \in 1..Len(s) : s[i] = x})

SeqsUpTo(S, n) == UNION {[1..k -> S] : k \in 0..n}

(***************************************************************************)
(* The heap the methods work on: st.P is every node's Parent, st.C every   *)
(* node's Children, st.K every node's _node_cache.                         *)
(***************************************************************************)
EmptyCache == {}

invalidate_node_cache(st, self) == [st EXCEPT !.K[self] = EmptyCache]

remove_node(st, self, idx) ==
    LET s1 == invalidate_node_cache(st, self)
        node == s1.C[self][idx]
    IN  [s1 EXCEPT !.C[self] = DropAt(@, idx), !.P[node] = None]

remove_found(st, self, node) == IndexOf(st.C[self], node) > 0

remove(st, self, node) ==
    LET i == IndexOf(st.C[self], node)
    IN  IF i > 0 THEN remove_node(st, self, i)
                 ELSE invalidate_node_cache(st, self)

adopt(st, self, node) ==
    LET s1 == IF st.P[node] # None THEN remove(st, st.P[node], node) ELSE st
        s2 == [s1 EXCEPT !.P[node] = self]
    IN  invalidate_node_cache(s2, self)

append(st, self, node) ==
    LET s1 == adopt(st, self, node)
        s2 == [s1 EXCEPT !.C[self] = Append(@, node)]
    IN  invalidate_node_cache(s2, self)

RECURSIVE adopt_all(_, _, _)
adopt_all(st, self, nodes) ==
    IF nodes = <<>> THEN st
    ELSE adopt_all(adopt(st, self, Head(nodes)), self, Tail(nodes))

extend(st, self, nodes) ==
    LET s1 == adopt_all(st, self, nodes)
        s2 == [s1 EXCEPT !.C[self] = @ \o nodes]
    IN  invalidate_node_cache(s2, self)

\* What a call hands back: the heap it leaves, its return value, the exception raised
Result(st, out, exc) == [st |-> st, out |-> out, exc |-> exc]

pop(st, self, index) ==
    LET s1 == invalidate_node_cache(st, self)
        n == Len(s1.C[self])
        pos == IF index >= 0 THEN index + 1 ELSE n + index + 1
    IN  IF index < n /\ index >= -n
        THEN Result(remove_node(s1, self, pos), s1.C[self][pos], "none")
        ELSE Result(s1, None, "IndexError")

(***************************************************************************)
(* The nodes below n, n included, following Children.                      *)
(***************************************************************************)
Kids(C, n) == {C[n][i] : i \in 1..Len(C[n])}

\* S and what lies up to k levels below it; fresh is the part of S not yet looked below
RECURSIVE ReachN(_, _, _, _)
ReachN(C, S, fresh, k) ==
    IF k = 0 \/ fresh = {} THEN S
    ELSE LET found == UNION {Kids(C, n) : n \in fresh}
         IN  ReachN(C, S \cup found, found \ S, k - 1)

Subtree(C, n) == ReachN(C, {n}, {n}, NumNodes)

\* the nodes k levels below those of S
RECURSIVE LevelBelow(_, _, _)
LevelBelow(C, S, k) ==
    IF k = 0 \/ S = {} THEN S
    ELSE LevelBelow(C, UNION {Kids(C, n) : n \in S}, k - 1)

\* no path leads NumNodes levels down from n, so none runs into a cycle: every
\* traversal from n ends
AcyclicFrom(C, n) == LevelBelow(C, {n}, NumNodes) = {}

(***************************************************************************)
(* remove_deleted: the preorder generator of traverse(include_self=False)  *)
(* runs interleaved with the removals of the loop body.  f is the set F of *)
(* the nodes it holds for; out is the list of the nodes f was evaluated    *)
(* on, in the order of the calls.                                          *)
(***************************************************************************)
\* the bug of not walking on below a node that was removed
RECURSIVE remove_deleted_loop_skipping(_, _, _, _, _)
remove_deleted_loop_skipping(st, self, F, stack, seen) ==
    IF stack = <<>> THEN Result(st, seen, "none")
    ELSE LET curr == Last(stack)
             hit == curr # self /\ curr \in F
             seen1 == IF curr # self THEN Append(seen, curr) ELSE seen
         IN  IF hit /\ st.P[curr] = None
             THEN Result(st, seen1, "AttributeError")
             ELSE LET s1 == IF hit THEN remove(st, st.P[curr], curr) ELSE st
                  IN  remove_deleted_loop_skipping(
                          s1, self, F,
                          Front(stack) \o (IF hit THEN <<>> ELSE Reverse(s1.C[curr])), seen1)

RECURSIVE remove_deleted_loop(_, _, _, _, _)
remove_deleted_loop(st, self, F, stack, seen) ==
    IF stack = <<>> THEN Result(st, seen, "none")
    ELSE LET curr == Last(stack)
             hit == curr # self /\ curr \in F
             seen1 == IF curr # self THEN Append(seen, curr) ELSE seen
         IN  IF hit /\ st.P[curr] = None
             THEN Result(st, seen1, "AttributeError")
             ELSE LET s1 == IF hit THEN remove(st, st.P[curr], curr) ELSE st
                  IN  remove_deleted_loop(s1, self, F,
                                          Front(stack) \o Reverse(s1.C[curr]), seen1)

remove_deleted(st, self, F) == remove_deleted_loop(st, self, F, <<self>>, <<>>)

(***************************************************************************)
(* preorder, lines 233-241: the nodes in the order the generator yields    *)
(* them when nothing changes the tree meanwhile.                           *)
(***************************************************************************)
\* the bug of pushing the children unreversed: siblings come out last to first
RECURSIVE preorder_loop_unreversed(_, _, _, _, _)
preorder_loop_unreversed(C, self, include_self, stack, out) ==
    IF stack = <<>> THEN out
    ELSE LET curr == Last(stack)
             out1 == IF include_self \/ curr # self THEN Append(out, curr) ELSE out
         IN  preorder_loop_unreversed(C, self, include_self, Front(stack) \o C[curr], out1)

RECURSIVE preorder_loop(_, _, _, _, _)
preorder_loop(C, self, include_self, stack, out) ==
    IF stack = <<>> THEN out
    ELSE LET curr == Last(stack)
             out1 == IF include_self \/ curr # self THEN Append(out, curr) ELSE out
         IN  preorder_loop(C, self, include_self, Front(stack) \o Reverse(C[curr]), out1)

preorder(C, self, include_self) == preorder_loop(C, self, include_self, <<self>>, <<>>)

(***************************************************************************)
(* postorder, lines 262-293: an index stack walks down into the children   *)
(* and climbs back along Parent.  Indices are Python's, from 0.            *)
(***************************************************************************)
RECURSIVE postorder_loop(_, _, _, _, _, _)
postorder_loop(st, self, include_self, child_index_stack, curr, out) ==
    LET curr_index == Last(child_index_stack)
        curr_children == st.C[curr]
        bumped(stk) == [stk EXCEPT ![Len(stk)] = @ + 1]
    IN  IF curr_index < Len(curr_children)
        THEN LET curr_child == curr_children[curr_index + 1]
             IN  IF st.C[curr_child] # <<>>
                 THEN postorder_loop(st, self, include_self,
                                     Append(child_index_stack, 0), curr_child, out)
                 ELSE postorder_loop(st, self, include_self,
                                     bumped(child_index_stack), curr, Append(out, curr_child))
        ELSE LET out1 == IF include_self \/ curr # self THEN Append(out, curr) ELSE out
             IN  IF curr = self THEN Result(st, out1, "none")
                 ELSE IF st.P[curr] = None THEN Result(st, out1, "AttributeError")
                 ELSE IF Len(child_index_stack) = 1 THEN Result(st, out1, "IndexError")
                 ELSE postorder_loop(st, self, include_self,
                                     bumped(Front(child_index_stack)), st.P[curr], out1)

postorder(st, self, include_self) ==
    postorder_loop(st, self, include_self, <<0>>, self, <<>>)

(***************************************************************************)
(* levelorder, lines 335-343: a FIFO queue.                                *)
(***************************************************************************)
RECURSIVE levelorder_loop(_, _, _, _, _)
levelorder_loop(C, self, include_self, queue, out) ==
    IF queue = <<>> THEN out
    ELSE LET curr == Head(queue)
             out1 == IF include_self \/ curr # self THEN Append(out, curr) ELSE out
         IN  levelorder_loop(C, self, include_self, Tail(queue) \o C[curr], out1)

levelorder(C, self, include_self) == levelorder_loop(C, self, include_self, <<self>>, <<>>)

(***************************************************************************)
(* prune: collect the single-child nodes, then splice each one out.        *)
(***************************************************************************)
RECURSIVE prune_loop(_, _)
prune_loop(st, todo) ==
    IF todo = <<>> THEN Result(st, None, "none")
    ELSE LET node == Head(todo)
         IN  IF st.P[node] = None THEN Result(st, None, "AttributeError")
             ELSE IF st.C[node] = <<>> THEN Result(st, None, "IndexError")
             ELSE LET s1 == append(st, st.P[node], st.C[node][1])
                  IN  IF s1.P[node] = None THEN Result(s1, None, "AttributeError")
                      ELSE prune_loop(remove(s1, s1.P[node], node), Tail(todo))

prune(st, self) ==
    LET single(n) == Len(st.C[n]) = 1
        nodes_to_remove == SelectSeq(preorder(st.C, self, FALSE), single)
        r == prune_loop(st, nodes_to_remove)
    IN  IF r.exc = "none" THEN Result(invalidate_node_cache(r.st, self), None, "none")
        ELSE r

(***************************************************************************)
(* The name cache: a dict from name to node, here the set of its items.    *)
(***************************************************************************)
CacheKeys(cache) == {kv[1] : kv \in cache}

CacheGet(cache, name) ==
    IF name \in CacheKeys(cache) THEN (CHOOSE kv \in cache : kv[1] = name)[2] ELSE None

RECURSIVE create_node_cache_loop(_, _, _, _)
create_node_cache_loop(st, self, names, todo) ==
    IF todo = <<>> THEN Result(st, None, "none")
    ELSE LET node == Head(todo)
             name == names[node]
         IN  IF name = NoName THEN create_node_cache_loop(st, self, names, Tail(todo))
             ELSE IF name \in CacheKeys(st.K[self])
             THEN Result(st, None, "DuplicateNodeError")
             ELSE create_node_cache_loop([st EXCEPT !.K[self] = @ \cup {<<name, node>>}],
                                         self, names, Tail(todo))

create_node_cache(st, self, names) ==
    IF st.K[self] # EmptyCache THEN Result(st, None, "none")
    ELSE create_node_cache_loop(st, self, names, preorder(st.C, self, TRUE))

\* The argument of find is a TreeNode or a name
NodeRef(n) == <<"node", n>>

NameRef(name) == <<"name", name>>

IsNode(ref) == ref[1] = "node"

\* find; a TreeNode argument is handed back as it is
find(st, self, names, ref) ==
    IF IsNode(ref) THEN Result(st, ref[2], "none")
    ELSE LET r == create_node_cache(st, self, names)
             node == CacheGet(r.st.K[self], ref[2])
         IN  IF r.exc # "none" THEN r
             ELSE IF node = None THEN Result(r.st, None, "MissingNodeError")
             ELSE Result(r.st, node, "none")

(***************************************************************************)
(* lowest_common_ancestor, lines 454-492.                                  *)
(***************************************************************************)
\* tips = [self.find(name) for name in tipnames]; out is the list found so far
RECURSIVE find_all(_, _, _, _, _)
find_all(st, self, names, tipnames, tips) ==
    IF tipnames = <<>> THEN Result(st, tips, "none")
    ELSE LET r == find(st, self, names, Head(tipnames))
         IN  IF r.exc # "none" THEN r
             ELSE find_all(r.st, self, names, Tail(tipnames), Append(tips, r.out))

\* bool(curr): None is false, and so is a TreeNode of length 0 (__len__)
Truthy(st, curr) == curr # None /\ st.C[curr] # <<>>

HasBlack(st, n) == st.B[n] # NoBlack

\* while curr and not hasattr(curr, 'black'): the heap and the scrub list after the
\* walk up from one tip, the black count of the node it stopped at increased
RECURSIVE mark_up(_, _, _, _)
mark_up(st, scrub, prev, curr) ==
    IF Truthy(st, curr) /\ ~HasBlack(st, curr)
    THEN mark_up([st EXCEPT !.B[curr] = <<prev>>], Append(scrub, curr), curr, st.P[curr])
    ELSE IF Truthy(st, curr)
    THEN [st |-> [st EXCEPT !.B[curr] = Append(@, prev)], scrub |-> scrub]
    ELSE [st |-> st, scrub |-> scrub]

RECURSIVE mark_tips(_, _, _)
mark_tips(st, scrub, tips) ==
    IF tips = <<>> THEN [st |-> st, scrub |-> scrub]
    ELSE LET m == mark_up(st, scrub, Head(tips), st.P[Head(tips)])
         IN  mark_tips(m.st, m.scrub, Tail(tips))

\* while len(curr.black) == 1: curr = curr.black[0]; k bounds the steps, and a walk
\* of more than NumNodes steps is on a cycle and never ends ("diverges")
RECURSIVE descend(_, _, _)
descend(st, curr, k) ==
    IF ~HasBlack(st, curr) THEN [node |-> curr, exc |-> "AttributeError"]
    ELSE IF Len(st.B[curr]) # 1 THEN [node |-> curr, exc |-> "none"]
    ELSE IF k = 0 THEN [node |-> curr, exc |-> "diverges"]
    ELSE descend(st, st.B[curr][1], k - 1)

RECURSIVE scrub_all(_, _)
scrub_all(st, scrub) ==
    IF scrub = <<>> THEN st
    ELSE scrub_all([st EXCEPT !.B[Head(scrub)] = NoBlack], Tail(scrub))

lowest_common_ancestor(st, self, names, tipnames) ==
    IF Len(tipnames) = 1 THEN find(st, self, names, tipnames[1])
    ELSE LET f == find_all(st, self, names, tipnames, <<>>)
         IN  IF f.exc # "none" THEN Result(f.st, None, f.exc)
             ELSE IF Len(f.out) = 0 THEN Result(f.st, None, "none")
             ELSE LET m == mark_tips(f.st, <<>>, f.out)
                      d == descend(m.st, self, NumNodes)
                  IN  IF d.exc # "none" THEN Result(m.st, None, d.exc)
                      ELSE Result(scrub_all(m.st, m.scrub), d.node, "none")

(***************************************************************************)
(* get_max_distance, lines 649-692.                                        *)
(***************************************************************************)
\* n.Length or 0.0: None and 0 are both false
LengthOrZero(lengths, n) == IF lengths[n] = NoLength THEN 0 ELSE lengths[n]

\* a > b for two [dist, tip] lists: by dist, then by the tip objects
ListGreater(a, b) == a.dist > b.dist \/ (a.dist = b.dist /\ a.tip > b.tip)

\* max(c.MaxDistTips): the first of the two lists unless the second is greater
MaxOf(st, c) ==
    LET pair == st.M[c]
    IN  IF ListGreater(st.L[pair[2]], st.L[pair[1]]) THEN pair[2] ELSE pair[1]

\* argsort(dists)[-2:], positions from 1: numpy sorts so short an array by
\* insertion, which keeps equal elements in their order
ArgsortLastTwo(dists) ==
    LET n == Len(dists)
        rank(i) == Cardinality({j \in 1..n : dists[j] < dists[i] \/ (dists[j] = dists[i] /\ j < i)}) + 1
        at(r) == CHOOSE i \in 1..n : rank(i) = r
    IN  <<at(n - 1), at(n)>>

RECURSIVE set_max_distance_loop(_, _, _)
set_max_distance_loop(st, lengths, todo) ==
    IF todo = <<>> THEN Result(st, None, "none")
    ELSE LET n == Head(todo)
             kids == st.C[n]
             k == Len(st.L)
         IN  IF kids = <<>>
             THEN set_max_distance_loop(
                      [st EXCEPT !.L = @ \o <<[dist |-> 0, tip |-> n], [dist |-> 0, tip |-> n]>>,
                                 !.M[n] = <<k + 1, k + 2>>],
                      lengths, Tail(todo))
             ELSE IF \E i \in 1..Len(kids) : st.M[kids[i]] = NoMaxDistTips
             THEN Result(st, None, "AttributeError")
             ELSE LET tip_info == [i \in 1..Len(kids) |-> MaxOf(st, kids[i])]
                      dists == [i \in 1..Len(kids) |-> st.L[tip_info[i]].dist]
                      best_idx == ArgsortLastTwo(dists)
                      tip_a == IF Len(kids) = 1 THEN st.M[kids[1]][1] ELSE tip_info[best_idx[1]]
                      tip_b == IF Len(kids) = 1 THEN st.M[kids[1]][2] ELSE tip_info[best_idx[2]]
                      child_a == IF Len(kids) = 1 THEN kids[1] ELSE kids[best_idx[1]]
                      child_b == IF Len(kids) = 1 THEN kids[1] ELSE kids[best_idx[2]]
                      s1 == [st EXCEPT !.L[tip_a].dist = @ + LengthOrZero(lengths, child_a)]
                      s2 == [s1 EXCEPT !.L[tip_b].dist = @ + LengthOrZero(lengths, child_b)]
                  IN  set_max_distance_loop([s2 EXCEPT !.M[n] = <<tip_a, tip_b>>],
                                            lengths, Tail(todo))

\* the nodes postorder yields are handled before an exception of postorder arrives
set_max_distance(st, self, lengths) ==
    LET po == postorder(st, self, TRUE)
        r == set_max_distance_loop(st, lengths, po.out)
    IN  IF r.exc # "none" THEN r ELSE Result(r.st, None, po.exc)

\* non_tips: traverse(True, False, include_self) is preorder
non_tips(C, self, include_self) ==
    SelectSeq(preorder(C, self, include_self), LAMBDA n : C[n] # <<>>)

RECURSIVE get_max_distance_loop(_, _, _, _)
get_max_distance_loop(st, todo, longest, tips) ==
    IF todo = <<>> THEN Result(st, <<longest, tips>>, "none")
    ELSE LET n == Head(todo)
         IN  IF st.M[n] = NoMaxDistTips THEN Result(st, None, "AttributeError")
             ELSE LET tip_a == st.L[st.M[n][1]]
                      tip_b == st.L[st.M[n][2]]
                      dist == tip_a.dist + tip_b.dist
                  IN  IF dist > longest
                      THEN get_max_distance_loop(st, Tail(todo), dist, <<tip_a.tip, tip_b.tip>>)
                      ELSE get_max_distance_loop(st, Tail(todo), longest, tips)

get_max_distance(st, self, lengths) ==
    LET s == IF st.M[self] = NoMaxDistTips THEN set_max_distance(st, self, lengths)
             ELSE Result(st, None, "none")
    IN  IF s.exc # "none" THEN s
        ELSE get_max_distance_loop(s.st, non_tips(s.st.C, self, TRUE), 0, <<None, None>>)

\* a [dist, tip] list no MaxDistTips holds any more is freed; the others keep their order
collect(st) ==
    LET held(n) == IF st.M[n] = NoMaxDistTips THEN {} ELSE {st.M[n][1], st.M[n][2]}
        live == UNION {held(n) : n \in Nodes}
        new(i) == Cardinality({j \in live : j <= i})
    IN  [st EXCEPT !.L = [k \in 1..Cardinality(live) |-> st.L[CHOOSE i \in live : new(i) = k]],
                   !.M = [n \in Nodes |-> IF st.M[n] = NoMaxDistTips THEN NoMaxDistTips
                                          ELSE <<new(st.M[n][1]), new(st.M[n][2])>>]]

(***************************************************************************)
(* tip_tip_distances, lines 694-755.  Python's positions count from 0;     *)
(* position t of distances and row i of result are kept at t + 1, i + 1.   *)
(***************************************************************************)
\* tips, lines 345-359: the stack of preorder, yielding the childless nodes
tips(C, self, include_self) ==
    IF C[self] = <<>> THEN (IF include_self THEN <<self>> ELSE <<>>)
    ELSE SelectSeq(preorder(C, self, TRUE), LAMBDA n : C[n] = <<>>)

\* endpoints=None
NoEndpoints == <<<<"None", None>>>>

\* for i, node in enumerate(all_tips): node.__start, node.__stop = i, i+1
RECURSIVE number_tips(_, _, _)
number_tips(st, all_tips, i) ==
    IF i = Len(all_tips) THEN st
    ELSE number_tips([st EXCEPT !.S[all_tips[i + 1]] = i, !.T[all_tips[i + 1]] = i + 1],
                     all_tips, i + 1)

\* {n.__start: i for i, n in enumerate(tip_order)}: a later i replaces an earlier one
result_map(st, tip_order) ==
    [s \in {st.S[tip_order[i]] : i \in 1..Len(tip_order)} |->
        (CHOOSE i \in 1..Len(tip_order) :
            /\ st.S[tip_order[i]] = s
            /\ \A j \in (i + 1)..Len(tip_order) : st.S[tip_order[j]] # s) - 1]

\* the bug of testing the length for truth: 'child.Length or default_length'
child_len_or_default(lengths, child, default_length) ==
    IF lengths[child] # NoLength /\ lengths[child] # 0 THEN lengths[child] ELSE default_length

child_len(lengths, child, default_length) ==
    IF lengths[child] # NoLength THEN lengths[child] ELSE default_length

\* for child in node.Children: distances[child.__start:child.__stop] += child_len
RECURSIVE add_child_lengths(_, _, _, _, _)
add_child_lengths(st, lengths, default_length, distances, kids) ==
    IF kids = <<>> THEN distances
    ELSE LET child == Head(kids)
             added == [t \in 1..Len(distances) |->
                          IF st.S[child] <= t - 1 /\ t - 1 < st.T[child]
                          THEN distances[t] + child_len(lengths, child, default_length)
                          ELSE distances[t]]
         IN  add_child_lengths(st, lengths, default_length, added, Tail(kids))

\* update_result: the four nested loops assign result[t1idx, t2idx] for every tip1 below
\* an earlier child and tip2 below a later one, both in result_map.  result_map is one
\* to one, so one entry is assigned for one pair of tips only: the tips result_map
\* sends to t1idx and t2idx
update_result(st, kids, rmap, distances, result) ==
    LET below(child, tip) == st.S[child] <= tip /\ tip < st.T[child]
        mapped(idx) == \E tip \in DOMAIN rmap : rmap[tip] = idx
        tip_of(idx) == CHOOSE tip \in DOMAIN rmap : rmap[tip] = idx
        assigned(tip1, tip2) ==
            \E p, q \in 1..Len(kids) : p < q /\ below(kids[p], tip1) /\ below(kids[q], tip2)
    IN  [i \in 1..Len(result) |-> [j \in 1..Len(result) |->
            IF mapped(i - 1) /\ mapped(j - 1) /\ assigned(tip_of(i - 1), tip_of(j - 1))
            THEN distances[tip_of(i - 1) + 1] + distances[tip_of(j - 1) + 1]
            ELSE result[i][j]]]

Least(S) == CHOOSE x \in S : \A y \in S : x <= y

Greatest(S) == CHOOSE x \in S : \A y \in S : x >= y

\* for node in self.postorder(): out is the result matrix
RECURSIVE tip_tip_loop(_, _, _, _, _, _, _)
tip_tip_loop(st, lengths, default_length, rmap, todo, distances, result) ==
    IF todo = <<>> THEN Result(st, result, "none")
    ELSE LET node == Head(todo)
             kids == st.C[node]
         IN  IF kids = <<>>
             THEN tip_tip_loop(st, lengths, default_length, rmap, Tail(todo), distances, result)
             ELSE IF \E i \in 1..Len(kids) : st.S[kids[i]] = NoRange
             THEN Result(st, None, "AttributeError")
             ELSE LET d1 == add_child_lengths(st, lengths, default_length, distances, kids)
                      s1 == [st EXCEPT !.S[node] = Least({st.S[kids[i]] : i \in 1..Len(kids)}),
                                       !.T[node] = Greatest({st.T[kids[i]] : i \in 1..Len(kids)})]
                      r1 == IF Len(kids) > 1 THEN update_result(s1, kids, rmap, d1, result)
                            ELSE result
                  IN  tip_tip_loop(s1, lengths, default_length, rmap, Tail(todo), d1, r1)

tip_tip_distances(st, self, names, lengths, endpoints, default_length) ==
    LET all_tips == tips(st.C, self, FALSE)
        f == IF endpoints = NoEndpoints THEN Result(st, all_tips, "none")
             ELSE find_all(st, self, names, endpoints, <<>>)
    IN  IF f.exc # "none" THEN Result(f.st, None, f.exc)
        ELSE LET tip_order == f.out
                 s1 == number_tips(f.st, all_tips, 0)
             IN  IF \E i \in 1..Len(tip_order) : s1.S[tip_order[i]] = NoRange
                 THEN Result(s1, None, "AttributeError")
                 ELSE LET zeros == [i \in 1..Len(tip_order) |-> [j \in 1..Len(tip_order) |-> 0]]
                          po == postorder(s1, self, TRUE)
                          r == tip_tip_loop(s1, lengths, default_length,
                                            result_map(s1, tip_order), po.out,
                                            [t \in 1..Len(all_tips) |-> 0], zeros)
                      IN  IF r.exc # "none" THEN r
                          ELSE IF po.exc # "none" THEN Result(r.st, None, po.exc)
                          ELSE Result(r.st,
                                      <<[i \in 1..Len(tip_order) |-> [j \in 1..Len(tip_order) |->
                                            r.out[i][j] + r.out[j][i]]], tip_order>>,
                                      "none")

Heap == [P |-> Parent, C |-> Children, K |-> node_cache, B |-> black,
         M |-> MaxDistTips, L |-> tip_lists, S |-> start, T |-> stop]

SetHeap(st) ==
    /\ Parent' = st.P
    /\ Children' = st.C
    /\ node_cache' = st.K
    /\ black' = st.B
    /\ MaxDistTips' = st.M
    /\ tip_lists' = st.L
    /\ start' = st.S
    /\ stop' = st.T
    /\ UNCHANGED <<Name, Length>>

Ret(op, self, arg, out, exc) ==
    [op |-> op, self |-> self, arg |-> arg, out |-> out, exc |-> exc]

Detached ==
    /\ Parent = [n \in Nodes |-> None]
    /\ Children = [n \in Nodes |-> <<>>]
    /\ node_cache = [n \in Nodes |-> EmptyCache]
    /\ black = [n \in Nodes |-> NoBlack]
    /\ MaxDistTips = [n \in Nodes |-> NoMaxDistTips]
    /\ tip_lists = <<>>
    /\ start = [n \in Nodes |-> NoRange]
    /\ stop = [n \in Nodes |-> NoRange]
    /\ ret = Ret("init", None, None, None, "none")

Init ==
    /\ Detached
    /\ Name = [n \in Nodes |-> NoName]
    /\ Length = [n \in Nodes |-> NoLength]

CallAppend(self, node) ==
    /\ SetHeap(append(Heap, self, node))
    /\ ret' = Ret("append", None, None, None, "none")

CallExtend(self, nodes) ==
    /\ SetHeap(extend(Heap, self, nodes))
    /\ ret' = Ret("extend", None, None, None, "none")

CallPop(self, index) ==
    LET r == pop(Heap, self, index)
    IN  /\ SetHeap(r.st)
        /\ ret' = Ret("pop", None, None, r.out, r.exc)

CallRemove(self, node) ==
    /\ SetHeap(remove(Heap, self, node))
    /\ ret' = Ret("remove", None, None, remove_found(Heap, self, node), "none")

\* a traversal of a structure with a cycle below self does not return
CallRemoveDeleted(self, F) ==
    /\ AcyclicFrom(Children, self)
    /\ LET r == remove_deleted(Heap, self, F)
       IN  /\ SetHeap(r.st)
           /\ ret' = Ret("remove_deleted", None, None, None, r.exc)

CallPrune(self) ==
    /\ AcyclicFrom(Children, self)
    /\ LET r == prune(Heap, self)
       IN  /\ SetHeap(r.st)
           /\ ret' = Ret("prune", None, None, None, r.exc)

CallCreateNodeCache(self) ==
    /\ AcyclicFrom(Children, self)
    /\ LET r == create_node_cache(Heap, self, Name)
       IN  /\ SetHeap(r.st)
           /\ ret' = Ret("create_node_cache", self, None, None, r.exc)

CallFind(self, ref) ==
    /\ AcyclicFrom(Children, self)
    /\ LET r == find(Heap, self, Name, ref)
       IN  /\ SetHeap(r.st)
           /\ ret' = Ret("find", self, ref, r.out, r.exc)

CallPreorder(self, include_self) ==
    /\ AcyclicFrom(Children, self)
    /\ UNCHANGED <<Parent, Children, Name, Length, node_cache, black, MaxDistTips, tip_lists,
                   start, stop>>
    /\ ret' = Ret("preorder", self, include_self, preorder(Children, self, include_self), "none")

CallPostorder(self, include_self) ==
    /\ AcyclicFrom(Children, self)
    /\ UNCHANGED <<Parent, Children, Name, Length, node_cache, black, MaxDistTips, tip_lists,
                   start, stop>>
    /\ LET r == postorder(Heap, self, include_self)
       IN  ret' = Ret("postorder", self, include_self, r.out, r.exc)

CallLevelorder(self, include_self) ==
    /\ AcyclicFrom(Children, self)
    /\ UNCHANGED <<Parent, Children, Name, Length, node_cache, black, MaxDistTips, tip_lists,
                   start, stop>>
    /\ ret' = Ret("levelorder", self, include_self, levelorder(Children, self, include_self), "none")

\* a cache build inside find traverses: it does not return on a cycle; neither does
\* the walk down the black marks when they form one
CallLowestCommonAncestor(self, tipnames) ==
    /\ AcyclicFrom(Children, self)
    /\ LET r == lowest_common_ancestor(Heap, self, Name, tipnames)
       IN  /\ r.exc # "diverges"
           /\ SetHeap(r.st)
           /\ ret' = Ret("lowest_common_ancestor", None, None, r.out, r.exc)

CallGetMaxDistance(self) ==
    /\ AcyclicFrom(Children, self)
    /\ LET r == get_max_distance(Heap, self, Length)
       IN  /\ SetHeap(collect(r.st))
           /\ ret' = Ret("get_max_distance", self, None, r.out, r.exc)

CallTipTipDistances(self, endpoints, default_length) ==
    /\ AcyclicFrom(Children, self)
    /\ LET r == tip_tip_distances(Heap, self, Name, Length, endpoints, default_length)
       IN  /\ SetHeap(r.st)
           /\ ret' = Ret("tip_tip_distances", self, <<endpoints, default_length>>, r.out, r.exc)

(***************************************************************************)
(* The arguments of a caller that builds trees: a node that is neither the *)
(* receiver nor one of its ancestors, and no node twice in one list.       *)
(***************************************************************************)
FreshArg(self, node) == self \notin Subtree(Children, node)

FreshArgs(self, nodes) ==
    \A i \in 1..Len(nodes) : FreshArg(self, nodes[i]) /\ Count(nodes, nodes[i]) = 1

StructuralEdit(NS) ==
    \/ \E self \in NS, node \in NS : FreshArg(self, node) /\ CallAppend(self, node)
    \/ \E self \in NS, nodes \in SeqsUpTo(NS, MaxExtend) :
          FreshArgs(self, nodes) /\ CallExtend(self, nodes)
    \/ \E self \in NS, index \in (-MaxIndex)..MaxIndex : CallPop(self, index)
    \/ \E self \in NS, node \in NS : CallRemove(self, node)
    \/ \E self \in NS : CallPrune(self)

TreeEdit(NS) ==
    \/ StructuralEdit(NS)
    \/ \E self \in NS, F \in SUBSET NS : CallRemoveDeleted(self, F)

\* Children lists longer than MaxChildren are outside the model
Capped == \A n \in Nodes : Len(Children'[n]) <= MaxChildren

\* a list may name a node twice, and a node may already be a child of the receiver
RepeatArgs(self, nodes) == \A i \in 1..Len(nodes) : FreshArg(self, nodes[i])

RepeatEdit ==
    \/ \E self \in SmallNodes, node \in SmallNodes :
          FreshArg(self, node) /\ CallAppend(self, node) /\ Capped
    \/ \E self \in SmallNodes, nodes \in SeqsUpTo(SmallNodes, MaxExtend) :
          RepeatArgs(self, nodes) /\ CallExtend(self, nodes) /\ Capped
    \/ \E self \in SmallNodes, index \in (-MaxIndex)..MaxIndex : CallPop(self, index)
    \/ \E self \in SmallNodes, node \in SmallNodes : CallRemove(self, node)
    \/ \E self \in SmallNodes, F \in SUBSET SmallNodes : CallRemoveDeleted(self, F)
    \/ \E self \in SmallNodes : CallPrune(self) /\ Capped

\* any argument at all: the receiver itself, one of its ancestors
AnyEdit ==
    \/ \E self \in SmallNodes, node \in SmallNodes : CallAppend(self, node) /\ Capped
    \/ \E self \in SmallNodes, nodes \in SeqsUpTo(SmallNodes, MaxExtend) :
          CallExtend(self, nodes) /\ Capped

Next == TreeEdit(Nodes)

Spec == Init /\ [][Next]_vars

NextRepeatArgs == RepeatEdit

SpecRepeatArgs == Init /\ [][NextRepeatArgs]_vars

NextAnyArgs == AnyEdit

SpecAnyArgs == Init /\ [][NextAnyArgs]_vars

(***************************************************************************)
(* The name cache under edits: the nodes of SmallNodes carry any names.    *)
(***************************************************************************)
InitCache ==
    /\ Detached
    /\ Name \in [Nodes -> NameValues \cup {NoName}]
    /\ \A n \in Nodes \ SmallNodes : Name[n] = NoName
    /\ Length = [n \in Nodes |-> NoLength]

NextCache ==
    \/ TreeEdit(SmallNodes)
    \/ \E self \in SmallNodes : CallCreateNodeCache(self)
    \/ \E self \in SmallNodes, name \in NameValues : CallFind(self, NameRef(name))

SpecCache == InitCache /\ [][NextCache]_vars

(***************************************************************************)
(* One traversal of a tree built by append: a behaviour builds a tree and  *)
(* then calls preorder, postorder or levelorder on one of its nodes.       *)
(***************************************************************************)
Building == ret.op \in {"init", "append"}

BuildTree == \E self \in Nodes, node \in Nodes : FreshArg(self, node) /\ CallAppend(self, node)

NextTraverse ==
    \/ Building /\ BuildTree
    \/ \E self \in Nodes, include_self \in BOOLEAN : Building /\ CallPreorder(self, include_self)
    \/ \E self \in Nodes, include_self \in BOOLEAN : Building /\ CallPostorder(self, include_self)
    \/ \E self \in Nodes, include_self \in BOOLEAN : Building /\ CallLevelorder(self, include_self)

SpecTraverse == Init /\ [][NextTraverse]_vars

(***************************************************************************)
(* Lowest common ancestors on trees built by append; the arguments are     *)
(* nodes or names, and black lists longer than MaxBlack are left out.      *)
(***************************************************************************)
Refs == {NodeRef(n) : n \in Nodes} \cup {NameRef("a")}

BlackCapped == \A n \in Nodes : Len(black'[n]) <= MaxBlack

NextLca ==
    \/ Building /\ BuildTree
    \/ \E self \in Nodes, tipnames \in SeqsUpTo(Refs, MaxTipnames) :
          CallLowestCommonAncestor(self, tipnames) /\ BlackCapped

SpecLca == Init /\ [][NextLca]_vars

(***************************************************************************)
(* The diameter of a tree built by append whose nodes carry any lengths:   *)
(* a behaviour builds a tree and then calls get_max_distance once.         *)
(***************************************************************************)
InitLengths ==
    /\ Detached
    /\ Name = [n \in Nodes |-> NoName]
    /\ Length \in [Nodes -> LengthValues \cup {NoLength}]

NextDiam ==
    \/ Building /\ BuildTree
    \/ \E self \in Nodes : Building /\ CallGetMaxDistance(self)

SpecDiam == InitLengths /\ [][NextDiam]_vars

(***************************************************************************)
(* get_max_distance on roots between edits: the nodes of SmallNodes carry  *)
(* a length or none.                                                       *)
(***************************************************************************)
InitMemo ==
    /\ InitLengths
    /\ \A n \in Nodes : Length[n] \in {NoLength, MaxLength}
    /\ \A n \in Nodes \ SmallNodes : Length[n] = NoLength

NextMemo ==
    \/ StructuralEdit(SmallNodes)
    \/ \E self \in SmallNodes : Parent[self] = None /\ CallGetMaxDistance(self)

SpecMemo == InitMemo /\ [][NextMemo]_vars

(***************************************************************************)
(* Tip to tip distances of a tree built by append: no node, the nodes of   *)
(* SmallNodes or all nodes have lengths of 0..MaxLength, the others none;  *)
(* a behaviour builds a tree and calls                                     *)
(* tip_tip_distances once on a root, with no endpoints or with a list of   *)
(* up to MaxEndpoints distinct tips below it, and with a default length no *)
(* node has.                                                               *)
(***************************************************************************)
InitTipDist ==
    /\ InitLengths
    /\ \E S \in {{}, SmallNodes, Nodes} :
          \A n \in Nodes : Length[n] = IF n \in S THEN n % (MaxLength + 1) ELSE NoLength

DefaultLengths == {MaxLength + 1}

DistinctSeqs(S, k) == {seq \in SeqsUpTo(S, k) : \A i, j \in 1..Len(seq) : seq[i] = seq[j] => i = j}

EndpointChoices(self) ==
    {NoEndpoints} \cup
    {[i \in 1..Len(seq) |-> NodeRef(seq[i])] :
        seq \in DistinctSeqs({tips(Children, self, FALSE)[i] :
                                 i \in 1..Len(tips(Children, self, FALSE))}, MaxEndpoints)}

NextTipDist ==
    \/ Building /\ BuildTree
    \/ \E self \in Nodes :
          /\ Building
          /\ Parent[self] = None
          /\ \E endpoints \in EndpointChoices(self), default_length \in DefaultLengths :
                CallTipTipDistances(self, endpoints, default_length)

SpecTipDist == InitTipDist /\ [][NextTipDist]_vars

(***************************************************************************)
(* C1.  After any sequence of append, extend, pop, remove, remove_deleted  *)
(* and prune calls, a node whose Parent is p occurs exactly once in        *)
(* p.Children, and every element of p.Children has Parent p.               *)
(***************************************************************************)
C1_ParentChildrenConsistent ==
    /\ \A n \in Nodes : Parent[n] # None => Count(Children[Parent[n]], n) = 1
    /\ \A p \in Nodes : \A c \in Kids(Children, p) : Parent[c] = p

(***************************************************************************)
(* C2.  After any sequence of append and extend calls, following Parent    *)
(* links from any node reaches a node whose Parent is None.                *)
(***************************************************************************)
RECURSIVE ParentChainEnds(_, _)
ParentChainEnds(n, k) ==
    \/ Parent[n] = None
    \/ k > 0 /\ ParentChainEnds(Parent[n], k - 1)

C2_ParentLinksReachRoot ==
    ret.op \in {"append", "extend"} => \A n \in Nodes : ParentChainEnds(n, NumNodes)

(***************************************************************************)
(* C3.  Once a node r has built its name cache, an append, extend, pop,    *)
(* remove or prune on r or on a descendant of r invalidates r's cache, so  *)
(* that the next r.find answers for the current tree: after such an edit   *)
(* r's cache is empty, or at least still is the index of r's subtree.      *)
(***************************************************************************)
NamedBelow(r) == {n \in Subtree(Children, r) : Name[n] # NoName}

NameIndex(r) == {<<Name[n], n>> : n \in NamedBelow(r)}

NamesDistinct(r) == \A n, m \in NamedBelow(r) : Name[n] = Name[m] => n = m

CacheBuilt(r) ==
    /\ node_cache[r] # EmptyCache
    /\ node_cache[r] = NameIndex(r)
    /\ NamesDistinct(r)

CacheAnswersForTree(r) ==
    \/ node_cache[r] = EmptyCache
    \/ node_cache[r] = NameIndex(r) /\ NamesDistinct(r)

EditedBelow(r) ==
    /\ ret'.op \in {"append", "extend", "pop", "remove", "prune"}
    /\ \E n \in Subtree(Children, r) : Children'[n] # Children[n]

C3_EditInvalidatesCache ==
    [][\A r \in Nodes : (CacheBuilt(r) /\ EditedBelow(r)) => CacheAnswersForTree(r)']_vars

(***************************************************************************)
(* C4.  When create_node_cache (directly or through find) fails with the   *)
(* duplicate-name error, the node's name cache is empty afterwards.        *)
(***************************************************************************)
C4_FailedBuildLeavesCacheEmpty ==
    (ret.op \in {"create_node_cache", "find"} /\ ret.exc = "DuplicateNodeError")
        => node_cache[ret.self] = EmptyCache

(***************************************************************************)
(* C5.  preorder, postorder and levelorder called on a node s of a tree    *)
(* yield the sequence of the recursive preorder, the recursive postorder   *)
(* and the level-by-level walk of s's subtree, siblings in Children order: *)
(* every node of the subtree exactly once, none from outside it, and s     *)
(* itself exactly when include_self is true.                               *)
(***************************************************************************)
RECURSIVE Flatten(_)
Flatten(ss) == IF ss = <<>> THEN <<>> ELSE Head(ss) \o Flatten(Tail(ss))

RECURSIVE RecPreorder(_)
RecPreorder(n) ==
    <<n>> \o Flatten([i \in 1..Len(Children[n]) |-> RecPreorder(Children[n][i])])

RECURSIVE RecPostorder(_)
RecPostorder(n) ==
    Flatten([i \in 1..Len(Children[n]) |-> RecPostorder(Children[n][i])]) \o <<n>>

RECURSIVE Levels(_)
Levels(level) ==
    IF level = <<>> THEN <<>>
    ELSE level \o Levels(Flatten([i \in 1..Len(level) |-> Children[level[i]]]))

WithoutSelf(seq, s) == SelectSeq(seq, LAMBDA n : n # s)

Expected(op, s) ==
    CASE op = "preorder" -> RecPreorder(s)
      [] op = "postorder" -> RecPostorder(s)
      [] op = "levelorder" -> Levels(<<s>>)

IsTraversal == ret.op \in {"preorder", "postorder", "levelorder"}

C5_TraversalsMatchReference ==
    IsTraversal =>
        /\ ret.exc = "none"
        /\ ret.out = IF ret.arg THEN Expected(ret.op, ret.self)
                     ELSE WithoutSelf(Expected(ret.op, ret.self), ret.self)
        /\ \A n \in Nodes :
              Count(ret.out, n) = IF n \in Subtree(Children, ret.self) /\ (ret.arg \/ n # ret.self)
                                  THEN 1 ELSE 0

\* postorder from an inner node that is not the root, over a subtree with a branching
C5_Witness ==
    /\ ret.op = "postorder"
    /\ ~ret.arg
    /\ Parent[ret.self] # None
    /\ Len(ret.out) >= 2
    /\ Len(Children[ret.self]) = 2

(***************************************************************************)
(* C6.  For a root r and a list of two or more distinct tips of r's tree,  *)
(* in any order, r.lowest_common_ancestor returns the deepest node of the  *)
(* tree of which every listed tip is a descendant.                         *)
(***************************************************************************)
IsTip(n) == Children[n] = <<>>

Elements(seq) == {seq[i] : i \in 1..Len(seq)}

CommonAncestors(r, listed) ==
    {n \in Subtree(Children, r) : Elements(listed) \subseteq Subtree(Children, n)}

\* the common ancestor that lies below all the others
Deepest(r, listed) ==
    CHOOSE n \in CommonAncestors(r, listed) :
        \A m \in CommonAncestors(r, listed) : n \in Subtree(Children, m)

DistinctTipsOf(r, listed) ==
    /\ Len(listed) >= 2
    /\ \A i \in 1..Len(listed) :
          /\ IsTip(listed[i])
          /\ listed[i] \in Subtree(Children, r)
          /\ Count(listed, listed[i]) = 1

NodeRefs(listed) == [i \in 1..Len(listed) |-> NodeRef(listed[i])]

C6_LcaIsDeepestCommonAncestor ==
    [][\A r \in Nodes, listed \in SeqsUpTo(Nodes, MaxTipnames) :
          ( /\ Parent[r] = None
            /\ DistinctTipsOf(r, listed)
            /\ CallLowestCommonAncestor(r, NodeRefs(listed)) )
          => (ret'.exc = "none" /\ ret'.out = Deepest(r, listed))]_vars

(***************************************************************************)
(* C7.  After any call of lowest_common_ancestor, whether it returns or    *)
(* raises, no node of the tree carries the 'black' marker.                 *)
(***************************************************************************)
C7_NoBlackAfterLca ==
    ret.op = "lowest_common_ancestor" => \A n \in Nodes : black[n] = NoBlack

(***************************************************************************)
(* C8.  On a tree on which get_max_distance has not been called before and *)
(* whose branch lengths are non-negative integers (a missing length        *)
(* counted as 0), get_max_distance on the root returns (d, [t1, t2]) where *)
(* d is the largest path length between any two tips of the tree and t1,   *)
(* t2 are two tips of the tree whose connecting path has length d.        *)
(* Stated for the trees that have two tips a positive distance apart.      *)
(***************************************************************************)
RECURSIVE PathToRoot(_, _)
PathToRoot(n, k) ==
    IF Parent[n] = None \/ k = 0 THEN {n} ELSE {n} \cup PathToRoot(Parent[n], k - 1)

\* the nodes whose edge to the parent lies on the path between a and b
PathEdges(a, b) ==
    (PathToRoot(a, NumNodes) \ PathToRoot(b, NumNodes))
        \cup (PathToRoot(b, NumNodes) \ PathToRoot(a, NumNodes))

RECURSIVE SumOver(_, _)
SumOver(S, f) ==
    IF S = {} THEN 0
    ELSE LET n == CHOOSE m \in S : TRUE IN f[n] + SumOver(S \ {n}, f)

TipsBelow(r) == {n \in Subtree(Children, r) : IsTip(n)}

TipDistance(a, b) == SumOver(PathEdges(a, b), [n \in Nodes |-> LengthOrZero(Length, n)])

MaxTipDistance(r) ==
    CHOOSE d \in {TipDistance(a, b) : a, b \in TipsBelow(r)} :
        \A a, b \in TipsBelow(r) : TipDistance(a, b) <= d

C8_MaxDistanceIsDiameter ==
    ( /\ ret.op = "get_max_distance"
      /\ Parent[ret.self] = None
      /\ Cardinality(TipsBelow(ret.self)) >= 2
      /\ MaxTipDistance(ret.self) > 0 )
    => /\ ret.exc = "none"
       /\ ret.out[1] = MaxTipDistance(ret.self)
       /\ ret.out[2][1] \in TipsBelow(ret.self)
       /\ ret.out[2][2] \in TipsBelow(ret.self)
       /\ TipDistance(ret.out[2][1], ret.out[2][2]) = ret.out[1]

(***************************************************************************)
(* C9.  The memoized diameter fields are invalidated by every structural   *)
(* edit: when get_max_distance has been called on a root, the tree has     *)
(* then been changed by append, extend, pop, remove or prune, and          *)
(* get_max_distance is called again on a root that carries the memoized    *)
(* field, the call returns what get_max_distance returns on a tree of the  *)
(* same shape on which it was never called.                                *)
(***************************************************************************)
Unqueried(st) == [st EXCEPT !.M = [n \in Nodes |-> NoMaxDistTips], !.L = <<>>]

StructuralEdits == {"append", "extend", "pop", "remove", "prune"}

C9_EditInvalidatesMaxDistTips ==
    [][\A r \in Nodes :
          ( /\ Parent[r] = None
            /\ MaxDistTips[r] # NoMaxDistTips
            /\ ret.op \in StructuralEdits
            /\ CallGetMaxDistance(r) )
          => LET fresh == get_max_distance(Unqueried(Heap), r, Length)
             IN  ret'.exc = fresh.exc /\ ret'.out = fresh.out]_vars

(***************************************************************************)
(* C10.  For any tree and any endpoints argument that is absent (all tips) *)
(* or a list of distinct tips of the tree in any order, tip_tip_distances  *)
(* returns a matrix M and a tip order (the tips of the tree once each, or  *)
(* the endpoints as given) such that M[i][j] is the sum, over the edges of *)
(* the path between tip i and tip j, of the edge's Length (default_length  *)
(* where the Length is None); M is symmetric and M[i][i] is 0.             *)
(***************************************************************************)
\* the tips of the tree of s: the childless nodes below s
TipsUnder(s) == {n \in Subtree(Children, s) \ {s} : IsTip(n)}

EdgeLength(default_length) ==
    [n \in Nodes |-> IF Length[n] = NoLength THEN default_length ELSE Length[n]]

PathLength(a, b, default_length) == SumOver(PathEdges(a, b), EdgeLength(default_length))

RefNodes(refs) == [i \in 1..Len(refs) |-> refs[i][2]]

NextPrune ==
    \/ Building /\ BuildTree
    \/ \E self \in Nodes : Building /\ CallPrune(self)

SpecPrune == Init /\ [][NextPrune]_vars

(***************************************************************************)
(* C11.  prune() on node s replaces every proper descendant of s that has  *)
(* exactly one child by that child at the same position in the parent's    *)
(* Children sequence, so the left-to-right order of the tips of s's tree   *)
(* is the same after prune as before it.                                   *)
(***************************************************************************)
\* what stands in the place of n once the single-child nodes are replaced
RECURSIVE Collapse(_)
Collapse(n) == IF Len(Children[n]) = 1 THEN Collapse(Children[n][1]) ELSE n

\* the nodes of s's tree that prune keeps: s and the nodes without exactly one child
Kept(s) == {n \in Subtree(Children, s) : n = s \/ Len(Children[n]) # 1}

TipSeq(s) == SelectSeq(RecPreorder(s), IsTip)

C11_PruneKeepsPositions ==
    [][\A s \in Nodes :
          CallPrune(s) =>
              /\ ret'.exc = "none"
              /\ \A n \in Kept(s) :
                    Children'[n] = [i \in 1..Len(Children[n]) |-> Collapse(Children[n][i])]
              /\ TipSeq(s)' = TipSeq(s)]_vars

(***************************************************************************)
(* to_newick, lines 499-567.  A Python str is a string here; Len, SubSeq   *)
(* and \o take it apart and put it together.                               *)
(***************************************************************************)
CharAt(s, i) == SubSeq(s, i, i)

\* name.startswith(c), name.endswith(c) for a one-character c
startswith(name, c) == Len(name) >= 1 /\ CharAt(name, 1) = c

endswith(name, c) == Len(name) >= 1 /\ CharAt(name, Len(name)) = c

\* the character class of re.search("""[]['"(),:;_]""", name)
EscapeChars == {"]", "[", "'", "\"", "(", ")", ",", ":", ";", "_"}

search(chars, name) == \E i \in 1..Len(name) : CharAt(name, i) \in chars

\* name.replace(old, new) for a one-character old
RECURSIVE replace(_, _, _)
replace(name, old, new) ==
    IF name = "" THEN ""
    ELSE (IF Head(name) = old THEN new ELSE Head(name)) \o replace(Tail(name), old, new)

\* lines 534-543: the text a node's Name is emitted as
newick_name(name, escape_name) ==
    IF name = NoName THEN ""
    ELSE IF escape_name /\ ~(startswith(name, "'") /\ endswith(name, "'"))
    THEN IF search(EscapeChars, name)
         THEN "'" \o replace(name, "'", "''") \o "'"
         ELSE replace(name, " ", "_")
    ELSE name

\* ''.join(result)
RECURSIVE join(_)
join(result) == IF result = <<>> THEN "" ELSE Head(result) \o join(Tail(result))

\* while nodes_stack: an entry of nodes_stack is <<node, number of unvisited children>>
RECURSIVE to_newick_loop(_, _, _, _, _, _, _)
to_newick_loop(C, names, lengths, with_distances, escape_name, nodes_stack, result) ==
    IF nodes_stack = <<>> THEN result
    ELSE LET top_node == Last(nodes_stack)[1]
             num_unvisited_children == Last(nodes_stack)[2]
         IN  IF num_unvisited_children # 0
             THEN LET next_child == C[top_node][Len(C[top_node]) + 1 - num_unvisited_children]
                      counted == [nodes_stack EXCEPT ![Len(nodes_stack)][2] = @ - 1]
                  IN  to_newick_loop(C, names, lengths, with_distances, escape_name,
                                     Append(counted, <<next_child, Len(C[next_child])>>),
                                     IF C[next_child] # <<>> THEN Append(result, "(") ELSE result)
             ELSE LET closed == IF C[top_node] # <<>>
                                THEN [result EXCEPT ![Len(result)] = ")"] ELSE result
                      name == newick_name(names[top_node], escape_name)
                      text == IF with_distances /\ lengths[top_node] # NoLength
                              THEN name \o ":" \o ToString(lengths[top_node]) ELSE name
                  IN  to_newick_loop(C, names, lengths, with_distances, escape_name,
                                     Front(nodes_stack), closed \o <<text, ",">>)

to_newick(C, self, names, lengths, with_distances, semicolon, escape_name) ==
    LET result == to_newick_loop(C, names, lengths, with_distances, escape_name,
                                 <<<<self, Len(C[self])>>>>, <<"(">>)
        len_result == Len(result)
    IN  IF len_result = 2 THEN (IF semicolon THEN ";" ELSE "")
        ELSE IF len_result = 3 THEN (IF semicolon THEN result[2] \o ";" ELSE result[2])
        ELSE IF semicolon THEN join([result EXCEPT ![len_result] = ";"])
        ELSE join(Front(result))

CallToNewick(self, with_distances, semicolon, escape_name) ==
    /\ AcyclicFrom(Children, self)
    /\ UNCHANGED <<Parent, Children, Name, Length, node_cache, black, MaxDistTips, tip_lists,
                   start, stop>>
    /\ ret' = Ret("to_newick", self, <<with_distances, semicolon, escape_name>>,
                  to_newick(Children, self, Name, Length, with_distances, semicolon, escape_name),
                  "none")

(***************************************************************************)
(* Newick text of a tree built by append over the nodes of SmallNodes: the *)
(* first node carries any name of up to MaxNameLen characters, the second  *)
(* a plain name, the others none; every other node has a length.           *)
(***************************************************************************)
NameChars == EscapeChars \cup {" ", "a"}

RECURSIVE Strings(_, _)
Strings(chars, k) ==
    IF k = 0 THEN {""}
    ELSE Strings(chars, k - 1) \cup {s \o c : s \in Strings(chars, k - 1), c \in chars}

InitNewick ==
    /\ Detached
    /\ \E name \in Strings(NameChars, MaxNameLen) \cup {NoName} :
          Name = [n \in Nodes |-> IF n = 1 THEN name ELSE IF n = 2 THEN "b" ELSE NoName]
    /\ Length = [n \in Nodes |-> IF n % 2 = 1 THEN n % (MaxLength + 1) ELSE NoLength]

NextNewick ==
    \/ \E self \in SmallNodes, node \in SmallNodes :
          Building /\ FreshArg(self, node) /\ CallAppend(self, node)
    \/ \E self \in SmallNodes, with_distances \in BOOLEAN, semicolon \in BOOLEAN,
          escape_name \in BOOLEAN :
          Building /\ CallToNewick(self, with_distances, semicolon, escape_name)

SpecNewick == InitNewick /\ [][NextNewick]_vars

(***************************************************************************)
(* C12.  With escape_name true, to_newick emits every non-None name that   *)
(* contains any of the characters [ ] ' " ( ) , : ; _ (including names     *)
(* that both begin and end with a single quote) as the name wrapped in     *)
(* single quotes with every embedded single quote doubled, and emits every *)
(* other name with each space replaced by an underscore: the text returned *)
(* is the Newick text of the tree with every name written so.              *)
(***************************************************************************)
RECURSIVE MapChars(_, _, _)
MapChars(name, from, to) ==
    IF Len(name) = 0 THEN ""
    ELSE MapChars(SubSeq(name, 1, Len(name) - 1), from, to)
            \o (IF CharAt(name, Len(name)) = from THEN to ELSE CharAt(name, Len(name)))

EscapedName(name) ==
    IF \E i \in 1..Len(name) :
          CharAt(name, i) \in {"[", "]", "'", "\"", "(", ")", ",", ":", ";", "_"}
    THEN "'" \o MapChars(name, "'", "''") \o "'"
    ELSE MapChars(name, " ", "_")

RECURSIVE NewickOf(_, _)
NewickOf(n, with_distances) ==
    LET kids == Children[n]
        RECURSIVE joined(_)
        joined(i) == IF i = Len(kids) THEN NewickOf(kids[i], with_distances)
                     ELSE NewickOf(kids[i], with_distances) \o "," \o joined(i + 1)
    IN  (IF kids = <<>> THEN "" ELSE "(" \o joined(1) \o ")")
        \o (IF Name[n] = NoName THEN "" ELSE EscapedName(Name[n]))
        \o (IF with_distances /\ Length[n] # NoLength THEN ":" \o ToString(Length[n]) ELSE "")

C12_NamesEscaped ==
    (ret.op = "to_newick" /\ ret.arg[3]) =>
        ret.out = NewickOf(ret.self, ret.arg[1]) \o (IF ret.arg[2] THEN ";" ELSE "")

(***************************************************************************)
(* copy, lines 133-160.  The nodes copy constructs are the integers above  *)
(* NumNodes, taken in the order of their construction; copy works on the   *)
(* heap widened by them, which also holds every node's Name and Length     *)
(* (st.N, st.Len) and the number of nodes constructed so far (st.made).    *)
(***************************************************************************)
NumCopies == NumNodes

AllNodes == 1..(NumNodes + NumCopies)

Widened(f, default) == [n \in AllNodes |-> IF n \in Nodes THEN f[n] ELSE default]

\* the heap with the nodes not constructed yet as TreeNode() will make them
WideHeap(st, names, lengths) ==
    [P |-> Widened(st.P, None), C |-> Widened(st.C, <<>>), K |-> Widened(st.K, EmptyCache),
     B |-> Widened(st.B, NoBlack), M |-> Widened(st.M, NoMaxDistTips), L |-> st.L,
     S |-> Widened(st.S, NoRange), T |-> Widened(st.T, NoRange),
     N |-> Widened(names, NoName), Len |-> Widened(lengths, NoLength), made |-> 0]

\* the part of the widened heap that the state holds: the nodes 1..NumNodes
NarrowHeap(st) ==
    [P |-> [n \in Nodes |-> st.P[n]], C |-> [n \in Nodes |-> st.C[n]],
     K |-> [n \in Nodes |-> st.K[n]], B |-> [n \in Nodes |-> st.B[n]],
     M |-> [n \in Nodes |-> st.M[n]], L |-> st.L,
     S |-> [n \in Nodes |-> st.S[n]], T |-> [n \in Nodes |-> st.T[n]]]

\* copy, __copy_node and the deepcopy of a list of nodes call one another; depth is
\* the number of nested copy calls left before Python's recursion limit is met
RECURSIVE copy(_, _, _)
RECURSIVE copy_node(_, _, _)
RECURSIVE deepcopy_nodes(_, _, _, _, _)

\* deepcopy(n.black): a list of the copies n.__deepcopy__(memo) = n.copy(memo) makes
\* of its elements; the memo hands an element met before its first copy again
deepcopy_nodes(st, nodes, i, out, depth) ==
    IF i > Len(nodes) THEN Result(st, out, "none")
    ELSE IF \E j \in 1..(i - 1) : nodes[j] = nodes[i]
    THEN deepcopy_nodes(st, nodes, i + 1, Append(out, out[IndexOf(nodes, nodes[i])]), depth)
    ELSE IF depth = 0 THEN Result(st, None, "RuntimeError")
    ELSE LET r == copy(st, nodes[i], depth - 1)
         IN  IF r.exc # "none" THEN r
             ELSE deepcopy_nodes(r.st, nodes, i + 1, Append(out, r.out), depth)

\* __copy_node: result = n.__class__(), then every attribute but Parent, Children and
\* _node_cache is deep-copied.  A node in a [dist, tip] list carries MaxDistTips itself,
\* and the nested copy of it starts with an empty memo: the deepcopy of MaxDistTips
\* never ends and meets the recursion limit
copy_node(st, n, depth) ==
    IF st.made = NumCopies THEN Result(st, None, "out of nodes")
    ELSE LET result == NumNodes + st.made + 1
             s1 == [st EXCEPT !.made = @ + 1]
             b == IF s1.B[n] = NoBlack THEN Result(s1, NoBlack, "none")
                  ELSE deepcopy_nodes(s1, s1.B[n], 1, <<>>, depth)
         IN  IF s1.M[n] # NoMaxDistTips THEN Result(s1, None, "RuntimeError")
             ELSE IF b.exc # "none" THEN b
             ELSE Result([b.st EXCEPT !.N[result] = st.N[n], !.Len[result] = st.Len[n],
                                      !.S[result] = st.S[n], !.T[result] = st.T[n],
                                      !.B[result] = b.out],
                         result, "none")

\* while nodes_stack: an entry is <<new_top_node, old_top_node, unvisited_children>>
RECURSIVE copy_loop(_, _, _, _)
copy_loop(st, nodes_stack, root, depth) ==
    IF nodes_stack = <<>> THEN Result(st, root, "none")
    ELSE LET new_top_node == Last(nodes_stack)[1]
             old_top_node == Last(nodes_stack)[2]
             unvisited_children == Last(nodes_stack)[3]
         IN  IF unvisited_children # 0
             THEN LET old_child == st.C[old_top_node][Len(st.C[old_top_node]) + 1
                                                       - unvisited_children]
                      c == copy_node(st, old_child, depth)
                      counted == [nodes_stack EXCEPT ![Len(nodes_stack)][3] = @ - 1]
                  IN  IF c.exc # "none" THEN c
                      ELSE copy_loop(append(c.st, new_top_node, c.out),
                                     Append(counted, <<c.out, old_child, Len(st.C[old_child])>>),
                                     root, depth)
             ELSE copy_loop(st, Front(nodes_stack), root, depth)

copy(st, self, depth) ==
    LET r == copy_node(st, self, depth)
    IN  IF r.exc # "none" THEN r
        ELSE copy_loop(r.st, <<<<r.out, self, Len(r.st.C[self])>>>>, r.out, depth)

\* out is the new root (None when the call raises) together with the heap before the
\* call and the heap after it; a copy that needs more than NumCopies new nodes is outside
\* the model
CallCopy(self) ==
    /\ AcyclicFrom(Children, self)
    /\ LET before == WideHeap(Heap, Name, Length)
           r == copy(before, self, NumNodes)
       IN  /\ r.exc # "out of nodes"
           /\ SetHeap(NarrowHeap(r.st))
           /\ ret' = Ret("copy", self, None,
                         [root |-> IF r.exc = "none" THEN r.out ELSE None,
                          before |-> before, st |-> r.st],
                         r.exc)

(***************************************************************************)
(* One copy of a tree built by append, two of whose nodes are named and    *)
(* two have a length: a behaviour builds a tree, may build the name cache  *)
(* of a root or ask a root for its largest tip distance, and then copies   *)
(* one of the nodes.                                                       *)
(***************************************************************************)
InitCopy ==
    /\ Detached
    /\ Name = [n \in Nodes |-> IF n = 1 THEN "a" ELSE IF n = 2 THEN "b" ELSE NoName]
    /\ Length = [n \in Nodes |-> IF n % 2 = 1 THEN n % (MaxLength + 1) ELSE NoLength]

NextCopy ==
    \/ Building /\ BuildTree
    \/ \E self \in Nodes : Building /\ Parent[self] = None /\ CallCreateNodeCache(self)
    \/ \E self \in Nodes : Building /\ Parent[self] = None /\ CallGetMaxDistance(self)
    \/ \E self \in Nodes : ret.op # "copy" /\ CallCopy(self)

SpecCopy == InitCopy /\ [][NextCopy]_vars

(***************************************************************************)
(* C13.  s.copy() returns a node with Parent None whose tree has the same  *)
(* shape, child order, names and lengths as s's subtree and shares no node *)
(* with the original, and the call leaves every Parent link, Children      *)
(* sequence and name cache of the original tree unchanged.                 *)
(***************************************************************************)
\* node c of the heap st heads a tree like the one the node o heads in the heap before
RECURSIVE SameTree(_, _, _, _)
SameTree(o, c, before, st) ==
    /\ st.N[c] = before.N[o]
    /\ st.Len[c] = before.Len[o]
    /\ Len(st.C[c]) = Len(before.C[o])
    /\ \A i \in 1..Len(before.C[o]) :
          /\ st.P[st.C[c][i]] = c
          /\ SameTree(before.C[o][i], st.C[c][i], before, st)

C13_CopyIsIndependentTwin ==
    ret.op = "copy" =>
        /\ ret.exc = "none"
        /\ ret.out.st.P[ret.out.root] = None
        /\ SameTree(ret.self, ret.out.root, ret.out.before, ret.out.st)
        /\ Subtree(ret.out.st.C, ret.out.root) \cap Nodes = {}
        /\ \A n \in Nodes :
              /\ Parent[n] = ret.out.before.P[n]
              /\ Children[n] = ret.out.before.C[n]
              /\ node_cache[n] = ret.out.before.K[n]

(***************************************************************************)
(* distance, lines 620-646, with root, lines 431-439.                      *)
(***************************************************************************)
\* while not curr.is_root(): curr = curr.Parent; k bounds the steps
RECURSIVE root_loop(_, _, _)
root_loop(P, curr, k) == IF P[curr] = None \/ k = 0 THEN curr ELSE root_loop(P, P[curr], k - 1)

root(P, self) == root_loop(P, self, NumNodes)

\* while curr is not ancestor
RECURSIVE accumulate_loop(_, _, _, _, _)
accumulate_loop(st, lengths, curr, ancestor, accum) ==
    IF curr = ancestor THEN Result(st, accum, "none")
    ELSE IF st.P[curr] = None THEN Result(st, None, "NoParentError")
    ELSE IF lengths[curr] = NoLength THEN Result(st, None, "NoLengthError")
    ELSE accumulate_loop(st, lengths, st.P[curr], ancestor, accum + lengths[curr])

accumulate_to_ancestor(st, lengths, self, ancestor) ==
    accumulate_loop(st, lengths, self, ancestor, 0)

\* lowest_common_ancestor is called once: lca stands for what that call handed back
distance(st, self, other, names, lengths) ==
    IF self = other THEN Result(st, 0, "none")
    ELSE LET summed(lca) ==
                 LET accum == accumulate_to_ancestor(lca.st, lengths, self, lca.out)
                     more == accumulate_to_ancestor(lca.st, lengths, other, lca.out)
                 IN  IF lca.exc # "none" THEN lca
                     ELSE IF accum.exc # "none" THEN accum
                     ELSE IF more.exc # "none" THEN more
                     ELSE Result(lca.st, accum.out + more.out, "none")
         IN  CHOOSE r \in {summed(lca) : lca \in {lowest_common_ancestor(
                                 st, root(st.P, self), names,
                                 <<NodeRef(self), NodeRef(other)>>)}} : TRUE

CallDistance(self, other) ==
    /\ AcyclicFrom(Children, root(Parent, self))
    /\ LET r == distance(Heap, self, other, Name, Length)
       IN  /\ r.exc # "diverges"
           /\ SetHeap(r.st)
           /\ ret' = Ret("distance", self, other, r.out, r.exc)

(***************************************************************************)
(* One distance in a tree built by append whose nodes all have a length of *)
(* 0..MaxLength: a behaviour builds a tree and then asks for the distance  *)
(* between two nodes of one tree.                                          *)
(***************************************************************************)
InitDistance ==
    /\ InitLengths
    /\ \A n \in Nodes : Length[n] # NoLength

NextDistance ==
    \/ Building /\ BuildTree
    \/ \E self \in Nodes, other \in Nodes :
          /\ Building
          /\ root(Parent, self) = root(Parent, other)
          /\ CallDistance(self, other)

SpecDistance == InitDistance /\ [][NextDistance]_vars

(***************************************************************************)
(* C14.  For any two nodes a and b of one tree in which every non-root     *)
(* node has a Length (tips, internal nodes or the root, including the case *)
(* where one of them is an ancestor of the other), a.distance(b) returns   *)
(* the sum of the Lengths of the edges on the path between a and b; it is  *)
(* 0 when a is b and equals b.distance(a).                                 *)
(***************************************************************************)
\* the heap before the call: distance changes nothing but the black marks
Unmarked(st) == [st EXCEPT !.B = [n \in Nodes |-> NoBlack]]

C14_DistanceIsPathSum ==
    ret.op = "distance" =>
        /\ ret.exc = "none"
        /\ ret.out = SumOver(PathEdges(ret.self, ret.arg), Length)
        /\ ret.self = ret.arg => ret.out = 0
        /\ LET back == distance(Unmarked(Heap), ret.arg, ret.self, Name, Length)
           IN  back.exc = "none" /\ back.out = ret.out

(***************************************************************************)
(* One remove_deleted on a tree built by append, with an f that notes the  *)
(* nodes it is called on: a behaviour builds a tree and then calls         *)
(* remove_deleted on one of its nodes; ret keeps the receiver, the set f   *)
(* holds for and the list f noted.                                         *)
(***************************************************************************)
CallRemoveDeletedNoting(self, F) ==
    /\ AcyclicFrom(Children, self)
    /\ LET r == remove_deleted(Heap, self, F)
       IN  /\ SetHeap(r.st)
           /\ ret' = Ret("remove_deleted", self, F, r.out, r.exc)

NextRemoveDeleted ==
    \/ Building /\ BuildTree
    \/ \E self \in Nodes, F \in SUBSET Nodes : Building /\ CallRemoveDeletedNoting(self, F)

SpecRemoveDeleted == Init /\ [][NextRemoveDeleted]_vars

(***************************************************************************)
(* C15.  remove_deleted(f) on node s evaluates f exactly once on every     *)
(* node that was a proper descendant of s when the call began (also on     *)
(* nodes lying below a node removed earlier in the same call), and when it *)
(* returns every such node for which f held has Parent None and is absent  *)
(* from its former parent's Children, while every other node keeps its     *)
(* parent and its position among its siblings.                             *)
(***************************************************************************)
\* the proper descendants of s for which f holds
Deleted(s, F) == (Subtree(Children, s) \ {s}) \cap F

C15_RemoveDeletedVisitsEachOnce ==
    [][ret'.op = "remove_deleted" =>
          LET s == ret'.self
              F == ret'.arg
              gone == Deleted(s, F)
          IN  /\ ret'.exc = "none"
              /\ \A n \in Nodes :
                    Count(ret'.out, n) = IF n \in Subtree(Children, s) \ {s} THEN 1 ELSE 0
              /\ \A n \in gone :
                    /\ Parent'[n] = None
                    /\ n \notin Kids(Children', Parent[n])
              /\ \A n \in Nodes \ gone : Parent'[n] = Parent[n]
              /\ \A p \in Nodes :
                    Children'[p] = SelectSeq(Children[p], LAMBDA c : c \notin gone)]_vars

\* f held for a node that had a child and an uncle: the node is detached, f was
\* still evaluated on the child below it, which stays with it, and on the uncle
C15_Witness ==
    /\ ret.op = "remove_deleted"
    /\ ret.exc = "none"
    /\ Len(ret.out) = 3
    /\ \E n \in ret.arg, k \in Nodes \ ret.arg :
          /\ Parent[n] = None
          /\ Parent[k] = n
          /\ ret.out[1] = n
          /\ ret.out[2] = k
          /\ Parent[ret.out[3]] = ret.self

====
